---- MODULE Spec2Model ----
(***************************************************************************)
(* Model of bookstore_manager.py: the menu loop of main, the three         *)
(* mutating handlers add_sale, update_sale, delete_sale, the validators    *)
(* they call, and the SQLite connection they share.                        *)
(*                                                                         *)
(* The store is modelled by two copies of its contents: `disk`, what is    *)
(* committed, and `db`, what the single connection sees (disk plus the     *)
(* statements of the open transaction).  commit copies db to disk,         *)
(* rollback copies disk to db.  A statement that raises sqlite3.Error is   *)
(* an input of the step that executes it (its parameter f).                *)
(*                                                                         *)
(* Every input() call is a point where the process waits, so a handler is  *)
(* a sequence of steps, one per prompt, followed by one step for the       *)
(* statements after the last prompt; pc is the position and the handler's  *)
(* local variables carry the source's names.                               *)
(***************************************************************************)
EXTENDS Integers, Sequences, FiniteSets, TLC

VARIABLES
    disk,        \* committed contents of bookstore.db
    db,          \* contents as seen through conn
    connOpen,    \* whether conn is open
    pc,          \* position of the process
    out,         \* last message printed by a handler
    sdate, mid, bid, valid_ids, sqty, sdiscount,   \* locals of add_sale
    sales, idx, sale, new_discount                 \* locals of update_sale / delete_sale

vars == <<disk, db, connOpen, pc, out, sdate, mid, bid, valid_ids, sqty,
          sdiscount, sales, idx, sale, new_discount>>

-----------------------------------------------------------------------------
(* Bounds of the model *)

\* add_sale is offered only while fewer than MaxAdds sales have been added to
\* the seeded ones (the AUTOINCREMENT counter of table sale counts them)
MaxAdds == 1

-----------------------------------------------------------------------------
(* Inputs typed at the prompts *)

MenuInputs == {"", "1", "2", "3", "4", "5", "9"}
DateInputs == {"2024-02-30", "2024-1-15", "20240115xx", ""}
MemberInputs == {"M002", "M999"}
BookInputs == {"B001", "B003", "B999"}
QtyInputs == {"2", " 21", "0", "-1", "abc"}
DiscountInputs == {"0", "+50", "-5", "1o"}
ChoiceInputs == {"", "1", "4", "5", "0", "-1", "x"}

-----------------------------------------------------------------------------
(* Text handling: re.match(DATE_PATTERN, .) and int(.) *)

Ch(s, i) == SubSeq(s, i, i)

Digits == {"0", "1", "2", "3", "4", "5", "6", "7", "8", "9"}

DigitVal(c) ==
    CASE c = "0" -> 0 [] c = "1" -> 1 [] c = "2" -> 2 [] c = "3" -> 3
      [] c = "4" -> 4 [] c = "5" -> 5 [] c = "6" -> 6 [] c = "7" -> 7
      [] c = "8" -> 8 [] c = "9" -> 9

IsDigits(s) == Len(s) > 0 /\ \A i \in 1..Len(s) : Ch(s, i) \in Digits

RECURSIVE DigitsVal(_)
DigitsVal(s) ==
    IF Len(s) = 0 THEN 0
    ELSE 10 * DigitsVal(SubSeq(s, 1, Len(s) - 1)) + DigitVal(Ch(s, Len(s)))

RECURSIVE Strip(_)
Strip(s) ==
    IF Len(s) > 0 /\ Ch(s, 1) = " " THEN Strip(SubSeq(s, 2, Len(s)))
    ELSE IF Len(s) > 0 /\ Ch(s, Len(s)) = " " THEN Strip(SubSeq(s, 1, Len(s) - 1))
    ELSE s

\* int(s): surrounding blanks are dropped, one sign is allowed, the rest
\* must be decimal digits; anything else raises ValueError (ok = FALSE)
int(s) ==
    LET t == Strip(s)
        signed == Len(t) > 0 /\ Ch(t, 1) \in {"-", "+"}
        body == IF signed THEN SubSeq(t, 2, Len(t)) ELSE t
        sign == IF signed /\ Ch(t, 1) = "-" THEN -1 ELSE 1
    IN  IF IsDigits(body) THEN [ok |-> TRUE, val |-> sign * DigitsVal(body)]
        ELSE [ok |-> FALSE, val |-> 0]

\* DATE_PATTERN = ^\d{4}-\d{2}-\d{2}$
validate_date(date) ==
    /\ Len(date) = 10
    /\ IsDigits(SubSeq(date, 1, 4))
    /\ Ch(date, 5) = "-"
    /\ IsDigits(SubSeq(date, 6, 7))
    /\ Ch(date, 8) = "-"
    /\ IsDigits(SubSeq(date, 9, 10))

-----------------------------------------------------------------------------
(* The store after initialize_db on a fresh file *)

member == {"M001", "M002", "M003"}

SeedBooks ==
    [b \in {"B001", "B002", "B003"} |->
        CASE b = "B001" -> [bprice |-> 600, bstock |-> 50]
          [] b = "B002" -> [bprice |-> 800, bstock |-> 30]
          [] b = "B003" -> [bprice |-> 1200, bstock |-> 20]]

Row(i, d, m, b, q, dc, t) ==
    [sid |-> i, sdate |-> d, mid |-> m, bid |-> b, sqty |-> q,
     sdiscount |-> dc, stotal |-> t]

SeedSaleRows ==
    { Row(1, "2024-01-15", "M001", "B001", 2, 100, 1100),
      Row(2, "2024-01-16", "M002", "B002", 1, 50, 750),
      Row(3, "2024-01-17", "M001", "B003", 3, 200, 3400),
      Row(4, "2024-01-18", "M003", "B001", 1, 0, 600) }

\* seq is sqlite_sequence's value for table sale (sid is AUTOINCREMENT)
SeedDb == [book |-> SeedBooks, sale |-> SeedSaleRows, seq |-> Cardinality(SeedSaleRows)]

-----------------------------------------------------------------------------
(* Queries *)

check_member_exists_any(d, m) == TRUE

\* SELECT 1 FROM member WHERE mid = ?   (no statement ever writes member)
check_member_exists(d, m) == m \in member

check_book_exists(d, b) == b \in DOMAIN d.book

\* (stock_ok, current_stock)
check_book_stock_off_by_one(d, b, q) ==
    IF b \in DOMAIN d.book /\ d.book[b].bstock + 1 >= q
    THEN [ok |-> TRUE, stock |-> d.book[b].bstock]
    ELSE [ok |-> FALSE, stock |-> IF b \in DOMAIN d.book THEN d.book[b].bstock ELSE 0]

check_book_stock(d, b, q) ==
    IF b \in DOMAIN d.book /\ d.book[b].bstock >= q
    THEN [ok |-> TRUE, stock |-> d.book[b].bstock]
    ELSE [ok |-> FALSE, stock |-> IF b \in DOMAIN d.book THEN d.book[b].bstock ELSE 0]

\* bprice, or 0 when the book is absent
get_book_price(d, b) == IF b \in DOMAIN d.book THEN d.book[b].bprice ELSE 0

RECURSIVE SortedSids(_)
SortedSids(S) ==
    IF S = {} THEN <<>>
    ELSE LET m == CHOOSE x \in S : \A y \in S : x <= y
         IN  <<m>> \o SortedSids(S \ {m})

get_sales_list_desc(d) ==
    LET l == SortedSids({r.sid : r \in {x \in d.sale : x.mid \in member}})
    IN  [i \in 1..Len(l) |-> l[Len(l) + 1 - i]]

\* SELECT s.sid, ... FROM sale s JOIN member m ON s.mid = m.mid ORDER BY s.sid
\* (only the sid of each listed row is used by the callers)
get_sales_list(d) == SortedSids({r.sid : r \in {x \in d.sale : x.mid \in member}})

\* SELECT s.*, b.bprice FROM sale s JOIN book b ON s.bid = b.bid WHERE s.sid = ?
\* fetchone(): the set holds the row, or is empty for None
select_sale(d, i) ==
    { [row |-> r, bprice |-> d.book[r.bid].bprice] :
        r \in {x \in d.sale : x.sid = i /\ x.bid \in DOMAIN d.book} }

\* stotal = bprice * sqty - sdiscount
stotal_of(bprice, q, dc) == bprice * q - dc

new_total_without_discount(bprice, q, dc) == bprice * q

\* new_total = sale['bprice'] * sale['sqty'] - new_discount
new_total_of(bprice, q, dc) == bprice * q - dc

-----------------------------------------------------------------------------
(* Statements *)

\* INSERT INTO sale (sdate, mid, bid, sqty, sdiscount, stotal) VALUES (...)
insert_sale(d, dt, m, b, q, dc, t) ==
    [d EXCEPT !.sale = @ \cup {Row(d.seq + 1, dt, m, b, q, dc, t)},
              !.seq = @ + 1]

decrement_stock_adds(d, b, q) ==
    IF b \in DOMAIN d.book THEN [d EXCEPT !.book[b].bstock = @ + q] ELSE d

decrement_stock_once(d, b, q) ==
    IF b \in DOMAIN d.book THEN [d EXCEPT !.book[b].bstock = @ - 1] ELSE d

\* UPDATE book SET bstock = bstock - ? WHERE bid = ?
decrement_stock(d, b, q) ==
    IF b \in DOMAIN d.book THEN [d EXCEPT !.book[b].bstock = @ - q] ELSE d

update_sale_row_no_where(d, i, dc, t) ==
    [d EXCEPT !.sale = {[r EXCEPT !.sdiscount = dc, !.stotal = t] : r \in @}]

\* UPDATE sale SET sdiscount = ?, stotal = ? WHERE sid = ?
update_sale_row(d, i, dc, t) ==
    [d EXCEPT !.sale = {IF r.sid = i THEN [r EXCEPT !.sdiscount = dc, !.stotal = t]
                        ELSE r : r \in @}]

\* DELETE FROM sale WHERE sid = ?
delete_sale_row(d, i) == [d EXCEPT !.sale = {r \in @ : r.sid # i}]

rollback_missing(cur, committed) == cur

\* conn.rollback(): the connection sees the committed contents again
rollback(cur, committed) == committed

\* sqlite3.Connection.__exit__: commit when the block ends normally, roll
\* back when an exception leaves it; the connection is not closed
conn_exit(cur, committed, raised) == IF raised THEN committed ELSE cur

-----------------------------------------------------------------------------
(* The process *)

Init ==
    /\ disk = SeedDb
    /\ db = SeedDb
    /\ connOpen = TRUE
    /\ pc = "menu"
    /\ out = [by |-> "main", msg |-> "", n |-> 0]
    /\ sdate = "" /\ mid = "" /\ bid = "" /\ valid_ids = FALSE
    /\ sqty = 0 /\ sdiscount = -1
    /\ sales = <<>> /\ idx = -1 /\ sale = {} /\ new_discount = -1

Locals == <<sdate, mid, bid, valid_ids, sqty, sdiscount, sales, idx, sale, new_discount>>

\* a handler's locals end with its call
DropLocals ==
    /\ sdate' = "" /\ mid' = "" /\ bid' = "" /\ valid_ids' = FALSE
    /\ sqty' = 0 /\ sdiscount' = -1
    /\ sales' = <<>> /\ idx' = -1 /\ sale' = {} /\ new_discount' = -1

Say(by, m, k) == out' = [by |-> by, msg |-> m, n |-> k]

\* the handler returns to main's loop, which shows the menu again
Return(by, m, k) == pc' = "menu" /\ Say(by, m, k) /\ DropLocals /\ connOpen' = connOpen

\* the prompt is shown again
Again(by, m) == pc' = pc /\ Say(by, m, 0) /\ UNCHANGED <<disk, db, connOpen>> /\ UNCHANGED Locals

\* an exception no handler catches leaves main's with block and ends the
\* process with a traceback; cur is what the connection saw when it was raised
Uncaught(by, exc, cur) ==
    /\ pc' = "crashed"
    /\ Say(by, exc, 0)
    /\ db' = conn_exit(cur, disk, TRUE)
    /\ disk' = conn_exit(cur, disk, TRUE)
    /\ connOpen' = connOpen
    /\ DropLocals

\* except sqlite3.Error as e: conn.rollback(); print(e)
Caught(by, cur) ==
    /\ db' = rollback(cur, disk)
    /\ disk' = disk
    /\ Return(by, "error", 0)

\* conn.commit()
Commit(cur) == db' = cur /\ disk' = cur

-----------------------------------------------------------------------------
(* main *)

MenuExit ==
    /\ pc = "menu"
    /\ \E choice \in MenuInputs :
        /\ choice = "" \/ choice = "5"
        /\ pc' = "exited"
        /\ db' = conn_exit(db, disk, FALSE)
        /\ disk' = conn_exit(db, disk, FALSE)
        /\ connOpen' = connOpen
        /\ UNCHANGED out
        /\ DropLocals

MenuInvalid ==
    /\ pc = "menu"
    /\ \E choice \in MenuInputs :
        /\ choice \notin {"", "1", "2", "3", "4", "5"}
        /\ Return("main", "invalid_option", 0)
        /\ UNCHANGED <<disk, db>>

\* print_sale_report
MenuReport ==
    /\ pc = "menu"
    /\ \E choice \in MenuInputs, f \in {"none", "select"} :
        /\ choice = "2"
        /\ IF f = "select" THEN Uncaught("print_sale_report", "uncaught_select", db)
           ELSE /\ Return("print_sale_report", "report",
                          Cardinality({r \in db.sale : r.mid \in member
                                                       /\ r.bid \in DOMAIN db.book}))
                /\ UNCHANGED <<disk, db>>

-----------------------------------------------------------------------------
(* add_sale *)

MenuAdd ==
    /\ pc = "menu"
    /\ db.seq < Cardinality(SeedSaleRows) + MaxAdds
    /\ \E choice \in MenuInputs :
        /\ choice = "1"
        /\ pc' = "add_date"
        /\ UNCHANGED <<disk, db, connOpen, out>>
        /\ UNCHANGED Locals

AddDate ==
    /\ pc = "add_date"
    /\ \E s \in DateInputs :
        IF validate_date(s)
        THEN /\ sdate' = s
             /\ pc' = "add_ids"
             /\ UNCHANGED <<disk, db, connOpen, out, mid, bid, valid_ids, sqty,
                            sdiscount, sales, idx, sale, new_discount>>
        ELSE Again("add_sale", "bad_date")

AddIds ==
    /\ pc = "add_ids"
    /\ \E m \in MemberInputs, b \in BookInputs, f \in {"none", "select"} :
        IF f = "select" THEN Uncaught("add_sale", "uncaught_select", db)
        ELSE /\ mid' = m
             /\ bid' = b
             /\ valid_ids' = (check_member_exists(db, m) /\ check_book_exists(db, b))
             /\ pc' = "add_qty"
             /\ UNCHANGED <<disk, db, connOpen, out, sdate, sqty, sdiscount,
                            sales, idx, sale, new_discount>>

AddQty ==
    /\ pc = "add_qty"
    /\ \E s \in QtyInputs :
        IF ~int(s).ok THEN Again("add_sale", "not_int")
        ELSE IF int(s).val <= 0 THEN Again("add_sale", "qty_not_positive")
        ELSE /\ sqty' = int(s).val
             /\ pc' = "add_discount"
             /\ UNCHANGED <<disk, db, connOpen, out, sdate, mid, bid, valid_ids,
                            sdiscount, sales, idx, sale, new_discount>>

AddDiscount ==
    /\ pc = "add_discount"
    /\ \E s \in DiscountInputs :
        IF ~int(s).ok THEN Again("add_sale", "not_int")
        ELSE IF int(s).val < 0 THEN Again("add_sale", "discount_negative")
        ELSE /\ sdiscount' = int(s).val
             /\ pc' = "add_finish"
             /\ UNCHANGED <<disk, db, connOpen, out, sdate, mid, bid, valid_ids,
                            sqty, sales, idx, sale, new_discount>>

\* lines 125-147
AddFinish ==
    /\ pc = "add_finish"
    /\ \E f \in {"none", "select", "insert", "update", "commit"} :
        LET stock == check_book_stock(db, bid, sqty)
            bprice == get_book_price(db, bid)
            stotal == stotal_of(bprice, sqty, sdiscount)
            inserted == insert_sale(db, sdate, mid, bid, sqty, sdiscount, stotal)
            updated == decrement_stock(inserted, bid, sqty)
        IN  IF ~valid_ids
            THEN Return("add_sale", "invalid_ids", 0) /\ UNCHANGED <<disk, db>>
            ELSE IF f = "select" THEN Uncaught("add_sale", "uncaught_select", db)
            ELSE IF ~stock.ok
            THEN Return("add_sale", "stock_short", stock.stock) /\ UNCHANGED <<disk, db>>
            ELSE IF f = "insert" THEN Caught("add_sale", db)
            ELSE IF f = "update" THEN Caught("add_sale", inserted)
            ELSE IF f = "commit" THEN Caught("add_sale", updated)
            ELSE Commit(updated) /\ Return("add_sale", "added", stotal)

-----------------------------------------------------------------------------
(* update_sale *)

MenuUpdate ==
    /\ pc = "menu"
    /\ \E choice \in MenuInputs, f \in {"none", "select"} :
        /\ choice = "3"
        /\ IF f = "select" THEN Uncaught("update_sale", "uncaught_select", db)
           ELSE IF get_sales_list(db) = <<>>
           THEN Return("update_sale", "no_sales", 0) /\ UNCHANGED <<disk, db>>
           ELSE /\ sales' = get_sales_list(db)
                /\ pc' = "upd_choice"
                /\ Say("update_sale", "sales_list", Len(get_sales_list(db)))
                /\ UNCHANGED <<disk, db, connOpen, sdate, mid, bid, valid_ids, sqty,
                               sdiscount, idx, sale, new_discount>>

UpdChoice ==
    /\ pc = "upd_choice"
    /\ \E choice \in ChoiceInputs, f \in {"none", "select"} :
        IF choice = ""
        THEN /\ pc' = "menu" /\ DropLocals /\ UNCHANGED <<disk, db, connOpen, out>>
        ELSE IF ~int(choice).ok THEN Again("update_sale", "invalid_number")
        ELSE IF int(choice).val - 1 < 0 \/ int(choice).val - 1 >= Len(sales)
        THEN Again("update_sale", "invalid_number")
        ELSE IF f = "select" THEN Caught("update_sale", db)
        ELSE /\ idx' = int(choice).val - 1
             /\ sale' = select_sale(db, sales[int(choice).val])
             /\ pc' = "upd_discount"
             /\ UNCHANGED <<disk, db, connOpen, out, sdate, mid, bid, valid_ids, sqty,
                            sdiscount, sales, new_discount>>

UpdDiscount ==
    /\ pc = "upd_discount"
    /\ \E s \in DiscountInputs :
        IF ~int(s).ok THEN Again("update_sale", "not_int")
        ELSE IF int(s).val < 0 THEN Again("update_sale", "discount_negative")
        ELSE /\ new_discount' = int(s).val
             /\ pc' = "upd_finish"
             /\ UNCHANGED <<disk, db, connOpen, out, sdate, mid, bid, valid_ids, sqty,
                            sdiscount, sales, idx, sale>>

\* lines 228-241
UpdFinish ==
    /\ pc = "upd_finish"
    /\ \E f \in {"none", "update", "commit"} :
        IF sale = {} THEN Uncaught("update_sale", "uncaught_TypeError", db)   \* sale is None
        ELSE LET s == CHOOSE x \in sale : TRUE
                 sid == sales[idx + 1]
                 new_total == new_total_of(s.bprice, s.row.sqty, new_discount)
                 updated == update_sale_row(db, sid, new_discount, new_total)
             IN  IF f = "update" THEN Caught("update_sale", db)
                 ELSE IF f = "commit" THEN Caught("update_sale", updated)
                 ELSE Commit(updated) /\ Return("update_sale", "updated", new_total)

-----------------------------------------------------------------------------
(* delete_sale *)

MenuDelete ==
    /\ pc = "menu"
    /\ \E choice \in MenuInputs, f \in {"none", "select"} :
        /\ choice = "4"
        /\ IF f = "select" THEN Uncaught("delete_sale", "uncaught_select", db)
           ELSE IF get_sales_list(db) = <<>>
           THEN Return("delete_sale", "no_sales", 0) /\ UNCHANGED <<disk, db>>
           ELSE /\ sales' = get_sales_list(db)
                /\ pc' = "del_choice"
                /\ Say("delete_sale", "sales_list", Len(get_sales_list(db)))
                /\ UNCHANGED <<disk, db, connOpen, sdate, mid, bid, valid_ids, sqty,
                               sdiscount, idx, sale, new_discount>>

DelChoice ==
    /\ pc = "del_choice"
    /\ \E choice \in ChoiceInputs :
        IF choice = ""
        THEN /\ pc' = "menu" /\ DropLocals /\ UNCHANGED <<disk, db, connOpen, out>>
        ELSE IF ~int(choice).ok THEN Again("delete_sale", "invalid_number")
        ELSE IF int(choice).val - 1 < 0 \/ int(choice).val - 1 >= Len(sales)
        THEN Again("delete_sale", "invalid_number")
        ELSE /\ idx' = int(choice).val - 1
             /\ pc' = "del_finish"
             /\ UNCHANGED <<disk, db, connOpen, out, sdate, mid, bid, valid_ids, sqty,
                            sdiscount, sales, sale, new_discount>>

\* lines 260-264; delete_sale has no handler for sqlite3.Error
DelFinish ==
    /\ pc = "del_finish"
    /\ \E f \in {"none", "delete", "commit"} :
        LET sid == sales[idx + 1]
            deleted == delete_sale_row(db, sid)
        IN  IF f = "delete" THEN Uncaught("delete_sale", "uncaught_write", db)
            ELSE IF f = "commit" THEN Uncaught("delete_sale", "uncaught_write", deleted)
            ELSE Commit(deleted) /\ Return("delete_sale", "deleted", sid)

-----------------------------------------------------------------------------

Next ==
    \/ MenuExit \/ MenuInvalid \/ MenuReport
    \/ MenuAdd \/ AddDate \/ AddIds \/ AddQty \/ AddDiscount \/ AddFinish
    \/ MenuUpdate \/ UpdChoice \/ UpdDiscount \/ UpdFinish
    \/ MenuDelete \/ DelChoice \/ DelFinish

Spec == Init /\ [][Next]_vars

-----------------------------------------------------------------------------
(* Properties *)

Books == DOMAIN SeedBooks

\* a step that reported no store error (neither the caught message nor a traceback)
NoStoreError ==
    out'.msg \notin {"error", "uncaught_select", "uncaught_write", "uncaught_TypeError"}

\* the sid at 1-based position k of the sale table ordered by sid
NthSid(d, k) ==
    CHOOSE i \in {r.sid : r \in d.sale} : Cardinality({r \in d.sale : r.sid <= i}) = k

RowOf(d, i) == CHOOSE r \in d.sale : r.sid = i

\* C1: a Create with a well-formed date, existing member and book, positive
\* quantity, non-negative discount and enough stock, whose statements raise no
\* store error, lowers that book's stock by exactly the quantity, leaves every
\* other book alone, and adds exactly one sale row, carrying the entered date,
\* member, book, quantity and discount with total = price * quantity - discount;
\* the result is committed.
C1_CreateEffect ==
    [][ ( /\ pc = "add_finish"
          /\ validate_date(sdate)
          /\ mid \in member
          /\ bid \in Books
          /\ sqty > 0
          /\ sdiscount >= 0
          /\ db.book[bid].bstock >= sqty
          /\ NoStoreError )
        => ( /\ db'.book[bid].bstock = db.book[bid].bstock - sqty
             /\ db'.book[bid].bprice = db.book[bid].bprice
             /\ \A b \in Books \ {bid} : db'.book[b] = db.book[b]
             /\ db.sale \subseteq db'.sale
             /\ Cardinality(db'.sale \ db.sale) = 1
             /\ \A r \in db'.sale \ db.sale :
                   /\ r.sid \notin {x.sid : x \in db.sale}
                   /\ r.sdate = sdate /\ r.mid = mid /\ r.bid = bid
                   /\ r.sqty = sqty /\ r.sdiscount = sdiscount
                   /\ r.stotal = db.book[bid].bprice * sqty - sdiscount
             /\ disk' = db'
             /\ pc' = "menu" ) ]_vars

\* the spec's end-to-end case: qty 2 of B001 (stock 50) leaves stock 48
C1_Witness ==
    /\ pc = "menu"
    /\ out = [by |-> "add_sale", msg |-> "added", n |-> 1150]
    /\ db.book["B001"].bstock = 48
    /\ \E r \in db.sale : r.sid = 5 /\ r.bid = "B001" /\ r.sqty = 2 /\ r.sdiscount = 50

\* C2: a Create with existing member and book but a quantity above the book's
\* stock ends without adding a sale: every book's stock and the sale table are
\* unchanged, in the connection's view and on disk.
C2_InsufficientStockFrame ==
    [][ ( /\ pc = "add_finish"
          /\ mid \in member
          /\ bid \in Books
          /\ sqty > db.book[bid].bstock )
        => ( /\ db' = db
             /\ disk' = disk
             /\ pc' \in {"menu", "crashed"}
             /\ out'.msg # "added"
             /\ NoStoreError => out' = [by |-> "add_sale", msg |-> "stock_short",
                                        n |-> db.book[bid].bstock] ) ]_vars

C2_Witness ==
    /\ pc = "menu"
    /\ out = [by |-> "add_sale", msg |-> "stock_short", n |-> 20]
    /\ db = SeedDb
    /\ disk = SeedDb

\* C3: once a member id or book id that does not exist has been entered, no
\* quantity or discount entered afterwards changes the store, and the step after
\* the last prompt returns to the menu with the invalid-id message.
C3_UnknownIdFrame ==
    [][ ( /\ pc \in {"add_qty", "add_discount", "add_finish"}
          /\ ~(mid \in member /\ bid \in Books) )
        => ( /\ db' = db
             /\ disk' = disk
             /\ pc' \in {"add_qty", "add_discount", "add_finish", "menu"}
             /\ pc = "add_finish" =>
                  /\ pc' = "menu"
                  /\ out' = [by |-> "add_sale", msg |-> "invalid_ids", n |-> 0] ) ]_vars

C3_Witness ==
    /\ pc = "menu"
    /\ out = [by |-> "add_sale", msg |-> "invalid_ids", n |-> 0]
    /\ db = SeedDb
    /\ disk = SeedDb

\* C4: an Update of the sale at a valid 1-based position with a non-negative
\* new discount, whose statements raise no store error, changes only that
\* sale's discount and total: its other fields, every other sale and every
\* book are unchanged, and the new total is the book's current price times the
\* sale's quantity minus the new discount.
C4_UpdateFrame ==
    [][ ( /\ pc = "upd_finish"
          /\ idx >= 0
          /\ idx < Cardinality(db.sale)
          /\ new_discount >= 0
          /\ NoStoreError )
        => LET old == RowOf(db, NthSid(db, idx + 1))
               new == [old EXCEPT !.sdiscount = new_discount,
                                  !.stotal = db.book[old.bid].bprice * old.sqty
                                             - new_discount]
           IN  /\ db'.sale = (db.sale \ {old}) \cup {new}
               /\ db'.book = db.book
               /\ db'.seq = db.seq
               /\ disk' = db'
               /\ pc' = "menu" ]_vars

\* the spec's end-to-end case: sale 1 (B001 at 600, qty 2), new discount 50
C4_Witness ==
    /\ pc = "menu"
    /\ out = [by |-> "update_sale", msg |-> "updated", n |-> 1150]
    /\ \E r \in db.sale :
          /\ r.sid = 1 /\ r.sdate = "2024-01-15" /\ r.mid = "M001" /\ r.bid = "B001"
          /\ r.sqty = 2 /\ r.sdiscount = 50 /\ r.stotal = 1150
    /\ db.book = SeedBooks

\* C5: a Delete of the sale at a valid 1-based position, whose statements raise
\* no store error, removes exactly the row at that position of the table
\* ordered by sid; every other row and every book's stock are unchanged.
C5_DeleteFrame ==
    [][ ( /\ pc = "del_finish"
          /\ idx >= 0
          /\ idx < Cardinality(db.sale)
          /\ NoStoreError )
        => ( /\ db'.sale = db.sale \ {RowOf(db, NthSid(db, idx + 1))}
             /\ Cardinality(db'.sale) = Cardinality(db.sale) - 1
             /\ db'.book = db.book
             /\ disk' = db'
             /\ pc' = "menu" ) ]_vars

\* position 4 of the seeded table is sale 4 (qty 1 of B001): its row is gone
\* and B001's stock is still 50
C5_Witness ==
    /\ pc = "menu"
    /\ out = [by |-> "delete_sale", msg |-> "deleted", n |-> 4]
    /\ db.sale = {r \in SeedSaleRows : r.sid # 4}
    /\ db.book = SeedBooks

\* C6: what is committed never holds a new sale row without its stock decrement
\* or a stock decrement without its sale row, and a Create stopped by a store
\* error at the insert, the stock update or the commit leaves nothing behind,
\* neither on disk nor pending in the connection.
C6_CreateAtomic ==
    [][ LET fresh == {r \in disk'.sale : r.sid \notin {x.sid : x \in disk.sale}}
        IN  /\ Cardinality(fresh) <= 1
            /\ \A b \in Books :
                  disk.book[b].bstock - disk'.book[b].bstock =
                     IF \E r \in fresh : r.bid = b
                     THEN (CHOOSE r \in fresh : r.bid = b).sqty
                     ELSE 0
            /\ (pc = "add_finish" /\ out'.msg = "error") => (db' = disk /\ disk' = disk)
            /\ pc' \in {"menu", "exited", "crashed"} => db' = disk' ]_vars

C6_Witness ==
    /\ pc = "menu"
    /\ out = [by |-> "add_sale", msg |-> "error", n |-> 0]
    /\ db = SeedDb
    /\ disk = SeedDb

\* C7: a store error raised by the INSERT, UPDATE, DELETE or commit of add_sale,
\* update_sale or delete_sale never ends the process.
C7_StoreErrorsCaught ==
    ~( /\ pc = "crashed"
       /\ out.by \in {"add_sale", "update_sale", "delete_sale"}
       /\ out.msg = "uncaught_write" )

\* C8: once main has left its with block the connection is closed.
C8_ClosedOnExit == pc = "exited" => ~connOpen

\* C9: every book's stock is a non-negative integer that never exceeds its
\* seeded value, and no step raises it.
C9_StockBounds ==
    /\ [](\A b \in Books :
            /\ db.book[b].bstock \in 0..SeedBooks[b].bstock
            /\ disk.book[b].bstock \in 0..SeedBooks[b].bstock)
    /\ [][\A b \in Books :
            /\ db'.book[b].bstock <= db.book[b].bstock
            /\ disk'.book[b].bstock <= disk.book[b].bstock]_vars

\* a sale was created and deleted again: its stock is not restored
C9_Witness ==
    /\ pc = "menu"
    /\ out.by = "delete_sale" /\ out.msg = "deleted" /\ out.n = 5
    /\ db.seq = 5
    /\ db.book["B003"].bstock = 18
    /\ \A r \in db.sale : r.sid # 5

\* C10: every sale row has quantity > 0, discount >= 0, an existing member and
\* book, and total = its book's price * quantity - discount; book prices keep
\* their seeded values.
C10_SaleRowsWellFormed ==
    \A d \in {db, disk} :
        /\ \A b \in Books : d.book[b].bprice = SeedBooks[b].bprice
        /\ \A r \in d.sale :
              /\ r.sqty > 0
              /\ r.sdiscount >= 0
              /\ r.mid \in member
              /\ r.bid \in Books
              /\ r.stotal = d.book[r.bid].bprice * r.sqty - r.sdiscount

\* a created sale (2 of B003 at 1200) whose discount was then updated to 50
C10_Witness ==
    /\ pc = "menu"
    /\ out = [by |-> "update_sale", msg |-> "updated", n |-> 2350]
    /\ \E r \in db.sale :
          r.sid = 5 /\ r.bid = "B003" /\ r.sqty = 2 /\ r.sdiscount = 50 /\ r.stotal = 2350

=============================================================================
